---------------------------- MODULE Spec2Model ----------------------------
(* A model of etc/process_benchmarks.py: the walk over target/criterion,   *)
(* the extraction loop of main, parse_contents, and print_benchmarks with  *)
(* its jinja template.                                                     *)
(*                                                                         *)
(* Strings that the program compares, sorts or rewrites (group_id,         *)
(* function_id, rendered cells) are sequences of character codes, so that  *)
(* comparison is Python's code-point order.  Numbers are Python floats as  *)
(* far as the program can tell them apart: a finite value (kept as an      *)
(* exact fraction n/d; binary rounding is not modelled), nan, inf, -inf.   *)
EXTENDS Integers, Sequences, FiniteSets, TLC

VARIABLES
    rootExists, \* whether <this_dir>/../target/criterion exists
    tree,       \* the directories below it: a prefix-closed set of paths
    files,      \* for each directory named new: benchmark.json, estimates.json
    readme,     \* contents of <this_dir>/../benches/README.md
    opened,     \* open(bfn, 'w') has been executed in this run
    pc,         \* position of main: walk, meta, estimates, insert, print, done, raised
    err,        \* the exception that ended the run, or "none"
    todo,       \* directories os.walk has still to visit, next one first
    yielded,    \* the directories whose pair benchmark_files has yielded, in order
    group,      \* main's local `group`
    function,   \* main's local `function`
    contents,   \* main's local `contents`
    b,          \* main's table: group -> function -> record
    runs,       \* number of the current run of the tool
    prev        \* README.md as the previous run left it

vars == <<rootExists, tree, files, readme, opened, pc, err, todo, yielded,
          group, function, contents, b, runs, prev>>

fsvars == <<rootExists, tree, files>>

-----------------------------------------------------------------------------
(* Bounds of the model.                                                    *)

MaxDirs == 3
MaxIdLen == 2
MaxRuns == 2

-----------------------------------------------------------------------------
(* Characters.                                                             *)

Backslash == 92
Underscore == 95
Space == 32
Pipe == 124
Minus == 45
Dot == 46
Digit0 == 48

Str_nan == <<110, 97, 110>>
Str_inf == <<105, 110, 102>>

\* Python's str comparison: lexicographic on code points.
StrLT(s, t) ==
    \E i \in 1..(Len(s) + 1) :
        /\ i <= Len(t)
        /\ \A j \in 1..(i - 1) : s[j] = t[j]
        /\ (i = Len(s) + 1 \/ s[i] < t[i])

StrLE(s, t) == s = t \/ StrLT(s, t)

-----------------------------------------------------------------------------
(* Numbers.                                                                *)

RECURSIVE GCD(_, _)
GCD(x, y) == IF y = 0 THEN x ELSE GCD(y, x % y)

Abs(x) == IF x < 0 THEN -x ELSE x

Fin(n, d) ==
    LET g == GCD(Abs(n), Abs(d))
        s == IF d < 0 THEN -1 ELSE 1
    IN  [k |-> "fin", n |-> (s * n) \div g, d |-> (s * d) \div g]

NaN == [k |-> "nan", n |-> 0, d |-> 1]
PosInf == [k |-> "inf", n |-> 0, d |-> 1]
NegInf == [k |-> "ninf", n |-> 0, d |-> 1]

IsZero(v) == v.k = "fin" /\ v.n = 0

\* 1000. / v for v that is not zero (Python raises on a zero divisor).
FloatDiv1000(v) ==
    CASE v.k = "fin" -> Fin(1000 * v.d, v.n)
      [] v.k = "nan" -> NaN
      [] OTHER -> Fin(0, 1)


-----------------------------------------------------------------------------
(* Rendering helpers: '%6.1f', str.replace, the template's literals.       *)

RECURSIVE Digits(_)
Digits(n) == IF n < 10 THEN <<Digit0 + n>>
             ELSE Digits(n \div 10) \o <<Digit0 + (n % 10)>>

RECURSIVE PadLeft(_, _)
PadLeft(s, w) == IF Len(s) >= w THEN s ELSE PadLeft(<<Space>> \o s, w)

\* The number of tenths nearest to |n|/d, ties to even (exact for the values
\* a float holds exactly; the fractions of this model have no other ties).
Tenths(n, d) ==
    LET q == (10 * n) \div d
        r == (10 * n) % d
    IN  IF 2 * r > d \/ (2 * r = d /\ q % 2 = 1) THEN q + 1 ELSE q

\* '%6.1f' % v
Fmt61(v) ==
    LET t == Tenths(Abs(v.n), v.d)
        body == CASE v.k = "nan" -> Str_nan
                  [] v.k = "inf" -> Str_inf
                  [] v.k = "ninf" -> <<Minus>> \o Str_inf
                  [] OTHER -> (IF v.n < 0 THEN <<Minus>> ELSE <<>>)
                              \o Digits(t \div 10) \o <<Dot, Digit0 + (t % 10)>>
    IN  PadLeft(body, 6)

\* jinja's `float` filter on a number: float(value).
JinjaFloat(v) == v

\* Escape processing of a string literal, as Python applies it to the source
\* text of tmpl and jinja's lexer (the unicode-escape codec) applies it again
\* to a literal inside the template: a backslash followed by a character that
\* starts no known escape is kept, together with that character.
RECURSIVE DecodeEscapes(_)
DecodeEscapes(s) ==
    IF Len(s) < 2 THEN s
    ELSE IF s[1] # Backslash THEN <<s[1]>> \o DecodeEscapes(Tail(s))
    ELSE LET c == s[2]
             rest == DecodeEscapes(SubSeq(s, 3, Len(s)))
         IN  CASE c = Backslash -> <<Backslash>> \o rest
               [] c = 110 -> <<10>> \o rest
               [] c = 116 -> <<9>> \o rest
               [] OTHER -> <<Backslash, c>> \o rest

\* The arguments of the template's replace("_", "\_"), as written in the file.
ReplaceOldSrc == <<Underscore>>
ReplaceNewSrc == <<Backslash, Underscore>>
ReplaceOld == DecodeEscapes(DecodeEscapes(ReplaceOldSrc))
ReplaceNew == DecodeEscapes(DecodeEscapes(ReplaceNewSrc))

\* A replace that stops after the first occurrence (count = 1).
RECURSIVE ReplaceFirst(_, _, _)
ReplaceFirst(s, old, new) ==
    IF Len(s) < Len(old) THEN s
    ELSE IF SubSeq(s, 1, Len(old)) = old
         THEN new \o SubSeq(s, Len(old) + 1, Len(s))
         ELSE <<s[1]>> \o ReplaceFirst(Tail(s), old, new)

\* str.replace(old, new) for a non-empty old: every occurrence, left to right.
RECURSIVE Replace(_, _, _)
Replace(s, old, new) ==
    IF Len(s) < Len(old) THEN s
    ELSE IF SubSeq(s, 1, Len(old)) = old
         THEN new \o Replace(SubSeq(s, Len(old) + 1, Len(s)), old, new)
         ELSE <<s[1]>> \o Replace(Tail(s), old, new)

\* The text between two cells of a data row: `}} | {{`.
Sep == <<Space, Pipe, Space>>

\* One data row of the template (lines 101-109).
RowLine(g, f, res) ==
    Replace(g, ReplaceOld, ReplaceNew) \o Sep
    \o Replace(f, ReplaceOld, ReplaceNew) \o Sep
    \o Fmt61(JinjaFloat(res.Runtime)) \o Sep
    \o Fmt61(JinjaFloat(res.Throughput))

\* The template's fixed text (lines 92-98); the `{%-` of the loops strips the
\* line break after the alignment row.
TemplateHead ==
    << "# Benchmarks",
       "",
       "All benchmarks run on a 2017 Macbook Pro with a 3.1 GHz Intel Core i7",
       "processor and 16 GB 2133 MHz LPDDR3 RAM.",
       "",
       "Group | Function | Runtime (ns) | Throughput (Mops/s)",
       "------|----------|-------------:|-------------------:" >>

\* The keys in descending order.
RECURSIVE SortKeysDescending(_)
SortKeysDescending(S) ==
    IF S = {} THEN <<>>
    ELSE LET m == CHOOSE x \in S : \A y \in S : StrLE(y, x)
         IN  <<m>> \o SortKeysDescending(S \ {m})

\* sorted() on the keys of a dict of strings.
RECURSIVE SortKeys(_)
SortKeys(S) ==
    IF S = {} THEN <<>>
    ELSE LET m == CHOOSE x \in S : \A y \in S : StrLE(x, y)
         IN  <<m>> \o SortKeys(S \ {m})

\* OrderedDict(sorted(iteritems(m))): the items as a sequence of <<key, value>>.
\* The keys of a dict are distinct, so the comparison of two items is decided
\* by their keys.
SortedItems(m) ==
    LET ks == SortKeys(DOMAIN m)
    IN  [i \in 1..Len(ks) |-> <<ks[i], m[ks[i]]>>]

RECURSIVE Concat(_)
Concat(ss) == IF ss = <<>> THEN <<>> ELSE Head(ss) \o Concat(Tail(ss))

\* template.render(benchmarks=benchmarks) for the sorted OrderedDict.
Render(od) ==
    [head |-> TemplateHead,
     rows |-> Concat([i \in 1..Len(od) |->
                 [j \in 1..Len(od[i][2]) |->
                     RowLine(od[i][1], od[i][2][j][1], od[i][2][j][2])]])]

\* Lines 116-119 followed by the rendering of line 124.
Report(tbl) ==
    LET inner == [g \in DOMAIN tbl |-> SortedItems(tbl[g])]
    IN  Render(SortedItems(inner))

\* README.md before the tool ever ran.
PriorReadme == [head |-> <<"(an earlier report)">>, rows |-> <<>>]

-----------------------------------------------------------------------------
(* The files of a directory named new.                                     *)

JNull == [t |-> "null", s |-> <<>>]
JStr(s) == [t |-> "str", s |-> s]

\* Python truthiness of a JSON value: None and "" are falsy.
Truthy(v) == v.t = "str" /\ v.s # <<>>

MetaAbsent == [st |-> "absent", hasG |-> FALSE, g |-> <<>>, hasF |-> FALSE, f |-> JNull]
MetaMalformed == [st |-> "malformed", hasG |-> FALSE, g |-> <<>>, hasF |-> FALSE, f |-> JNull]
MetaObj(hasG, g, hasF, f) == [st |-> "object", hasG |-> hasG, g |-> g, hasF |-> hasF, f |-> f]

EstAbsent == [st |-> "absent", hasSlope |-> FALSE, hasPE |-> FALSE, pe |-> NaN]
EstMalformed == [st |-> "malformed", hasSlope |-> FALSE, hasPE |-> FALSE, pe |-> NaN]
EstObj(hasSlope, hasPE, pe) == [st |-> "object", hasSlope |-> hasSlope, hasPE |-> hasPE, pe |-> pe]
Est(pe) == EstObj(TRUE, TRUE, pe)

NoContents == EstAbsent

\* meta.get('function_id', None) or group, without the `or`.
FunctionKeyNoOr(m) == IF m.hasF THEN m.f.s ELSE m.g

\* meta.get('function_id', None) or group   (line 14)
FunctionKey(m) == IF m.hasF /\ Truthy(m.f) THEN m.f.s ELSE m.g

NoData == [Runtime |-> NaN, Throughput |-> NaN]

\* parse_contents with the quotient turned upside down.
ParseContentsInverted(c) ==
    IF ~(c.hasSlope /\ c.hasPE) THEN [err |-> "KeyError", data |-> NoData]
    ELSE IF IsZero(c.pe) THEN [err |-> "ZeroDivisionError", data |-> NoData]
    ELSE [err |-> "none",
          data |-> [Runtime |-> c.pe,
                    Throughput |-> IF c.pe.k = "fin" THEN Fin(c.pe.n, 1000 * c.pe.d)
                                   ELSE c.pe]]

\* parse_contents with a zero divisor giving inf instead of an exception.
ParseContentsUnguarded(c) ==
    IF ~(c.hasSlope /\ c.hasPE) THEN [err |-> "KeyError", data |-> NoData]
    ELSE [err |-> "none",
          data |-> [Runtime |-> c.pe,
                    Throughput |-> IF IsZero(c.pe) THEN PosInf ELSE FloatDiv1000(c.pe)]]

\* parse_contents (lines 70-74): the record, or the exception it raises.
ParseContents(c) ==
    IF ~(c.hasSlope /\ c.hasPE) THEN [err |-> "KeyError", data |-> NoData]
    ELSE IF IsZero(c.pe) THEN [err |-> "ZeroDivisionError", data |-> NoData]
    ELSE [err |-> "none",
          data |-> [Runtime |-> c.pe, Throughput |-> FloatDiv1000(c.pe)]]

\* setdefault instead of assignment: an existing entry is kept.
TableSetKeepFirst(tbl, g, f, rec) ==
    [x \in DOMAIN tbl \cup {g} |->
        IF x # g THEN tbl[x]
        ELSE IF g \in DOMAIN tbl
             THEN [y \in DOMAIN tbl[g] \cup {f} |->
                      IF y \in DOMAIN tbl[g] THEN tbl[g][y] ELSE rec]
             ELSE [y \in {f} |-> rec]]

\* if group not in b: b[group] = {}   (lines 19-20)
TableGroup(tbl, g) ==
    [x \in DOMAIN tbl \cup {g} |-> IF x \in DOMAIN tbl THEN tbl[x] ELSE <<>>]

\* lines 19-22 for a record: b[group][function] = rec
TableSet(tbl, g, f, rec) ==
    LET t == TableGroup(tbl, g)
    IN  [t EXCEPT ![g] = [y \in DOMAIN t[g] \cup {f} |-> IF y = f THEN rec ELSE t[g][y]]]

-----------------------------------------------------------------------------
(* The directory tree below target/criterion.                              *)

Root == <<>>
Names == {"new", "x"}

\* All trees of at most n directories.
RECURSIVE Trees(_)
Trees(n) ==
    IF n = 0 THEN {{}}
    ELSE LET T == Trees(n - 1)
         IN  T \cup UNION {{t \cup {Append(p, nm)} : p \in t \cup {Root}, nm \in Names} : t \in T}

Basename(d) == IF d = Root THEN "criterion" ELSE d[Len(d)]

NewDirs(t) == {d \in t : Basename(d) = "new"}

\* The subdirectories os.scandir lists for d.
Subdirs(d) == {c \in tree : Len(c) = Len(d) + 1 /\ SubSeq(c, 1, Len(d)) = d}

\* The orders in which a set can be listed.
Orders(S) ==
    {s \in [1..Cardinality(S) -> S] : \A i, j \in 1..Cardinality(S) : i # j => s[i] # s[j]}

\* The strings of at most n characters over the alphabet of the model.
\* backslash, underscore, a, |
Alphabet == {Backslash, Underscore, 97, Pipe}
Strings(n) == UNION {[1..k -> Alphabet] : k \in 0..n}

\* a_, a^ and my_group
IdA == <<97, Underscore>>
IdB == <<97, 94>>
MyGroup == <<109, 121, Underscore, 103, 114, 111, 117, 112>>

TreeMetas ==
    { MetaAbsent, MetaMalformed,
      MetaObj(FALSE, <<>>, FALSE, JNull),
      MetaObj(TRUE, IdA, FALSE, JNull),
      MetaObj(TRUE, IdA, TRUE, JNull),
      MetaObj(TRUE, IdA, TRUE, JStr(<<>>)),
      MetaObj(TRUE, IdA, TRUE, JStr(IdB)),
      MetaObj(TRUE, IdB, FALSE, JNull),
      MetaObj(TRUE, IdB, TRUE, JStr(IdA)) }

TreeEsts ==
    { EstAbsent, EstMalformed,
      EstObj(FALSE, FALSE, NaN), EstObj(TRUE, FALSE, NaN),
      Est(Fin(0, 1)), Est(Fin(-4, 1)), Est(Fin(2, 1)), Est(Fin(3, 1)),
      Est(NaN), Est(PosInf) }

TreeContents ==
    {[meta |-> m, est |-> Est(Fin(2, 1))] : m \in TreeMetas}
    \cup {[meta |-> MetaObj(TRUE, IdA, FALSE, JNull), est |-> e] : e \in TreeEsts}

InitRun ==
    /\ readme = PriorReadme
    /\ opened = FALSE
    /\ pc = "walk"
    /\ err = "none"
    /\ todo = <<Root>>
    /\ yielded = <<>>
    /\ group = <<>>
    /\ function = <<>>
    /\ contents = NoContents
    /\ b = <<>>
    /\ runs = 1
    /\ prev = PriorReadme

\* Any tree of at most MaxDirs directories, or no criterion directory at all.
InitTrees ==
    /\ rootExists \in BOOLEAN
    /\ tree \in (IF rootExists THEN Trees(MaxDirs) ELSE {{}})
    /\ files \in [NewDirs(tree) -> TreeContents]
    /\ InitRun

\* One benchmark whose ids are any strings of at most MaxIdLen characters.
InitIds ==
    /\ rootExists = TRUE
    /\ tree = {<<"new">>}
    /\ \E g \in Strings(MaxIdLen) \cup {MyGroup}, hasF \in BOOLEAN, f \in Strings(MaxIdLen) :
          /\ hasF \/ f = <<>>
          /\ files = [d \in {<<"new">>} |->
                        [meta |-> MetaObj(TRUE, g, hasF, JStr(f)), est |-> Est(Fin(2, 1))]]
    /\ InitRun

Init == InitTrees \/ InitIds

-----------------------------------------------------------------------------
(* benchmark_files and main.                                               *)

\* os.path.join(dir_name, name)
Join(d, name) == Append(d, name)

DirOf(path) == SubSeq(path, 1, Len(path) - 1)

\* The pair of lines 51-53.
Pair(d) == <<Join(d, "benchmark.json"), Join(d, "estimates.json")>>

\* What open(path) followed by json.loads finds.
FileAt(path) ==
    LET d == DirOf(path)
        name == path[Len(path)]
    IN  IF d \in DOMAIN files
        THEN (IF name = "benchmark.json" THEN files[d].meta ELSE files[d].est)
        ELSE (IF name = "benchmark.json" THEN MetaAbsent ELSE EstAbsent)

\* os.scandir(d) fails.
ScandirFails(d) == d = Root /\ ~rootExists

\* 'new' occurs somewhere in the path.
YieldsAnywhere(d) == \E i \in 1..Len(d) : d[i] = "new"

\* os.path.split(dir_name)[-1] != 'new': continue   (lines 48-49)
Yields(d) == Basename(d) = "new"

Raise(e) == pc' = "raised" /\ err' = e

\* A walk that lets the error of os.scandir through.
WalkFailedRaises ==
    /\ Raise("FileNotFoundError")
    /\ UNCHANGED <<todo, yielded>>

\* os.walk, called without onerror, ends the walk of a directory it cannot
\* list without yielding anything for it.
WalkFailed ==
    /\ todo' = Tail(todo)
    /\ UNCHANGED <<pc, err, yielded>>

\* The generator advances by one directory of os.walk (lines 47-53).
WalkNext ==
    /\ pc = "walk"
    /\ todo # <<>>
    /\ LET d == Head(todo)
       IN  IF ScandirFails(d)
           THEN WalkFailed
           ELSE /\ \E ord \in Orders(Subdirs(d)) : todo' = ord \o Tail(todo)
                /\ IF Yields(d)
                   THEN yielded' = Append(yielded, Pair(d)) /\ pc' = "meta"
                   ELSE UNCHANGED <<pc, yielded>>
                /\ UNCHANGED err
    /\ UNCHANGED <<fsvars, readme, opened, group, function, contents, b, runs, prev>>

\* The generator is exhausted: the for loop of main ends (line 10).
WalkEnd ==
    /\ pc = "walk"
    /\ todo = <<>>
    /\ pc' = "print"
    /\ UNCHANGED <<fsvars, readme, opened, err, todo, yielded, group, function,
                   contents, b, runs, prev>>

\* main's locals meta_fn and estimates_fn.
meta_fn == yielded[Len(yielded)][1]
estimates_fn == yielded[Len(yielded)][2]

\* Lines 11-14.
ReadMeta ==
    /\ pc = "meta"
    /\ LET m == FileAt(meta_fn)
       IN  CASE m.st = "absent" -> Raise("FileNotFoundError") /\ UNCHANGED <<group, function>>
             [] m.st = "malformed" -> Raise("JSONDecodeError") /\ UNCHANGED <<group, function>>
             [] m.st = "object" /\ ~m.hasG -> Raise("KeyError") /\ UNCHANGED <<group, function>>
             [] OTHER -> /\ group' = m.g
                         /\ function' = FunctionKey(m)
                         /\ pc' = "estimates"
                         /\ UNCHANGED err
    /\ UNCHANGED <<fsvars, readme, opened, todo, yielded, contents, b, runs, prev>>

\* Lines 16-17.
ReadEstimates ==
    /\ pc = "estimates"
    /\ LET e == FileAt(estimates_fn)
       IN  CASE e.st = "absent" -> Raise("FileNotFoundError") /\ UNCHANGED contents
             [] e.st = "malformed" -> Raise("JSONDecodeError") /\ UNCHANGED contents
             [] OTHER -> contents' = e /\ pc' = "insert" /\ UNCHANGED err
    /\ UNCHANGED <<fsvars, readme, opened, todo, yielded, group, function, b, runs, prev>>

\* Lines 19-22.
Insert ==
    /\ pc = "insert"
    /\ LET r == ParseContents(contents)
       IN  IF r.err # "none"
           THEN Raise(r.err) /\ b' = TableGroup(b, group)
           ELSE b' = TableSet(b, group, function, r.data) /\ pc' = "walk" /\ UNCHANGED err
    /\ UNCHANGED <<fsvars, readme, opened, todo, yielded, group, function, contents, runs, prev>>

\* print_benchmarks, also called when main ends by an exception.
PrintBenchmarksAlways ==
    /\ pc = "print" \/ (pc = "raised" /\ ~opened)
    /\ opened' = TRUE
    /\ readme' = Report(b)
    /\ pc' = IF pc = "print" THEN "done" ELSE pc
    /\ UNCHANGED <<fsvars, err, todo, yielded, group, function, contents, b, runs, prev>>

\* print_benchmarks(b)   (line 24, lines 113-124)
PrintBenchmarks ==
    /\ pc = "print"
    /\ opened' = TRUE
    /\ readme' = Report(b)
    /\ pc' = "done"
    /\ UNCHANGED <<fsvars, err, todo, yielded, group, function, contents, b, runs, prev>>

\* The tool is run again on the same tree (line 128).
Rerun ==
    /\ pc = "done"
    /\ runs < MaxRuns
    /\ runs' = runs + 1
    /\ prev' = readme
    /\ opened' = FALSE
    /\ pc' = "walk"
    /\ todo' = <<Root>>
    /\ yielded' = <<>>
    /\ group' = <<>>
    /\ function' = <<>>
    /\ contents' = NoContents
    /\ b' = <<>>
    /\ UNCHANGED <<fsvars, readme, err>>

Next ==
    \/ WalkNext
    \/ WalkEnd
    \/ ReadMeta
    \/ ReadEstimates
    \/ Insert
    \/ PrintBenchmarks
    \/ Rerun

Spec == Init /\ [][Next]_vars

-----------------------------------------------------------------------------
(* Vocabulary of the properties.                                           *)

\* The (group, function) pairs of a table.
TableKeys(tbl) == UNION {{<<g, f>> : f \in DOMAIN tbl[g]} : g \in DOMAIN tbl}

\* The key an input pair carries: its group_id, and its function_id unless
\* that is absent, null or empty.
KeyOfPair(p) ==
    LET m == FileAt(p[1])
    IN  <<m.g, IF m.hasF /\ m.f.t = "str" /\ m.f.s # <<>> THEN m.f.s ELSE m.g>>

MetaGood(p) == FileAt(p[1]).st = "object" /\ FileAt(p[1]).hasG

PathResolves(e) == e.st = "object" /\ e.hasSlope /\ e.hasPE

\* Every step of the extraction of the pair succeeds.
PairGood(p) == MetaGood(p) /\ PathResolves(FileAt(p[2])) /\ ~IsZero(FileAt(p[2]).pe)

\* The pairs before the last one yielded.
EarlierKeys == {KeyOfPair(yielded[j]) : j \in 1..(Len(yielded) - 1)}

\* The pair is being worked on or has ended the run: it was never passed.
StuckAt(i) == i = Len(yielded) /\ pc \in {"meta", "estimates", "insert", "raised"}

\* README.md as it was when this run started.
Before == IF runs = 1 THEN PriorReadme ELSE prev

IsPrefix(s, t) == Len(s) <= Len(t) /\ SubSeq(t, 1, Len(s)) = s

\* The directory is still to be reached by the walk.
Pending(d) == \E i \in 1..Len(todo) : IsPrefix(todo[i], d)

Yielded == {yielded[i] : i \in 1..Len(yielded)}

\* Every underscore written as backslash, underscore; nothing else changed.
Escaped(s) ==
    Concat([i \in 1..Len(s) |-> IF s[i] = Underscore THEN <<Backslash, Underscore>> ELSE <<s[i]>>])

Count(s, c) == Cardinality({i \in 1..Len(s) : s[i] = c})

-----------------------------------------------------------------------------
(* C1. The table handed to print_benchmarks holds exactly the keys of the  *)
(* input pairs, and under each key the record of the last pair, in         *)
(* discovery order, that carried it.                                       *)
C1_LastWriteWins ==
    pc \in {"print", "done"} =>
        /\ TableKeys(b) = {KeyOfPair(p) : p \in Yielded}
        /\ \A g \in DOMAIN b : DOMAIN b[g] # {}
        /\ \A i \in 1..Len(yielded) :
              (\A j \in (i + 1)..Len(yielded) : KeyOfPair(yielded[j]) # KeyOfPair(yielded[i]))
              => LET k == KeyOfPair(yielded[i])
                     e == FileAt(yielded[i][2])
                 IN  /\ b[k[1]][k[2]].Runtime = e.pe
                     /\ b[k[1]][k[2]] = ParseContents(e).data

\* Two pairs carried the same key with different estimates.
C1_Witness ==
    /\ pc = "print"
    /\ \E i, j \in 1..Len(yielded) :
          /\ i < j
          /\ KeyOfPair(yielded[i]) = KeyOfPair(yielded[j])
          /\ FileAt(yielded[i][2]) # FileAt(yielded[j][2])

(* C2. The data rows of the report are the entries of the table in         *)
(* ascending order of group_id and, within a group, of function_id,        *)
(* whatever the order of insertion.                                        *)
C2_RowsSorted ==
    pc = "done" =>
        \E ks \in Orders(TableKeys(b)) :
            /\ \A i \in 1..(Len(ks) - 1) :
                  /\ StrLE(ks[i][1], ks[i + 1][1])
                  /\ ks[i][1] = ks[i + 1][1] => StrLE(ks[i][2], ks[i + 1][2])
            /\ readme.rows = [i \in 1..Len(ks) |-> RowLine(ks[i][1], ks[i][2], b[ks[i][1]][ks[i][2]])]

\* Three rows in two groups, inserted in another order than the sorted one.
C2_Witness ==
    /\ pc = "done"
    /\ Len(readme.rows) = 3
    /\ Cardinality(DOMAIN b) = 2
    /\ \E i \in 1..(Len(yielded) - 1) :
          \/ StrLT(KeyOfPair(yielded[i + 1])[1], KeyOfPair(yielded[i])[1])
          \/ /\ KeyOfPair(yielded[i + 1])[1] = KeyOfPair(yielded[i])[1]
             /\ StrLT(KeyOfPair(yielded[i + 1])[2], KeyOfPair(yielded[i])[2])

(* C3. The output file is opened only after every discovered pair has been *)
(* read and inserted; a failing step ends the run at once, later pairs are *)
(* not processed, and README.md is neither opened nor changed.             *)
C3_NoPartialReport ==
    /\ opened => /\ pc = "done" /\ err = "none" /\ todo = <<>>
                 /\ \A d \in NewDirs(tree) :
                       Pair(d) \in Yielded /\ KeyOfPair(Pair(d)) \in TableKeys(b)
    /\ ~opened => readme = Before
    /\ pc = "raised" => /\ err # "none" /\ ~opened /\ ~ENABLED Next
                        /\ ~PairGood(yielded[Len(yielded)])
    /\ err # "none" => pc = "raised"
    /\ \A i \in 1..Len(yielded) : ~PairGood(yielded[i]) => StuckAt(i)

\* The second pair failed while a directory was still to be visited.
C3_Witness ==
    /\ pc = "raised"
    /\ Len(yielded) = 2
    /\ todo # <<>>
    /\ TableKeys(b) # {}

(* C4. The function key is function_id when that is present and truthy and *)
(* group_id otherwise; metadata without group_id fails with a KeyError and *)
(* adds no entry.                                                          *)
C4_FunctionKey ==
    /\ (pc \in {"estimates", "insert", "walk", "print", "done"} /\ yielded # <<>>) =>
          LET m == FileAt(meta_fn)
          IN  /\ m.st = "object" /\ m.hasG
              /\ group = m.g
              /\ function = (IF m.hasF /\ m.f.t = "str" /\ m.f.s # <<>> THEN m.f.s ELSE m.g)
              /\ pc \in {"walk", "print", "done"} => <<group, function>> \in TableKeys(b)
    /\ \A i \in 1..Len(yielded) :
          (FileAt(yielded[i][1]).st = "object" /\ ~FileAt(yielded[i][1]).hasG) =>
              /\ i = Len(yielded)
              /\ pc \in {"meta", "raised"}
              /\ pc = "raised" => err = "KeyError" /\ TableKeys(b) = EarlierKeys

\* A function_id that is present and falsy was replaced by the group_id.
C4_Witness ==
    /\ pc = "insert"
    /\ FileAt(meta_fn).hasF
    /\ FileAt(meta_fn).f = JStr(<<>>)
    /\ function = group
    /\ group # <<>>

C6_Idempotent == (runs >= 2 /\ pc = "done") => readme = prev

(* C7. In a data row every underscore of group_id and function_id is       *)
(* written as backslash, underscore, and every other character as it is.   *)
C7_Escaping ==
    (pc = "done" /\ Len(yielded) = 1) =>
        /\ Len(readme.rows) = 1
        /\ IsPrefix(Escaped(group) \o <<Space, Pipe, Space>> \o Escaped(function)
                    \o <<Space, Pipe, Space>>, readme.rows[1])
        /\ group = MyGroup =>
              IsPrefix(<<109, 121, 92, 95, 103, 114, 111, 117, 112, 32, 124, 32>>, readme.rows[1])

\* my_group was rendered, beside a function_id of two underscores.
C7_Witness ==
    /\ pc = "done"
    /\ group = MyGroup
    /\ function = <<Underscore, Underscore>>
    /\ Len(readme.rows) = 1

C9_EmptyReport ==
    NewDirs(tree) = {} =>
        /\ yielded = <<>>
        /\ err = "none" /\ pc # "raised"
        /\ pc # "done" => ENABLED Next
        /\ pc = "done" =>
              /\ readme.rows = <<>>
              /\ Len(readme.head) = 7
              /\ readme.head[1] = "# Benchmarks"
              /\ readme.head[3] = "All benchmarks run on a 2017 Macbook Pro with a 3.1 GHz Intel Core i7"
              /\ readme.head[4] = "processor and 16 GB 2133 MHz LPDDR3 RAM."
              /\ readme.head[6] = "Group | Function | Runtime (ns) | Throughput (Mops/s)"
              /\ readme.head[7] = "------|----------|-------------:|-------------------:"

\* The run without a criterion directory has written its report.
C9_Witness ==
    /\ ~rootExists
    /\ pc = "done"
    /\ opened
    /\ readme.rows = <<>>

\* A point_estimate of zero ends the run with a ZeroDivisionError before
\* README.md is opened.
C10_ZeroAborts ==
    \A i \in 1..Len(yielded) :
        (MetaGood(yielded[i]) /\ PathResolves(FileAt(yielded[i][2]))
            /\ IsZero(FileAt(yielded[i][2]).pe)) =>
            /\ StuckAt(i)
            /\ pc = "raised" => err = "ZeroDivisionError" /\ ~opened /\ readme = Before

\* A negative point_estimate gives a record, and a row, of negative Throughput.
C10_NegativeAccepted ==
    /\ \A k \in TableKeys(b) :
          LET r == b[k[1]][k[2]]
          IN  (r.Runtime.k = "fin" /\ r.Runtime.n < 0) => (r.Throughput.k = "fin" /\ r.Throughput.n < 0)
    /\ (pc \in {"walk", "print", "done"} /\ yielded # <<>>
          /\ PathResolves(FileAt(estimates_fn)) /\ FileAt(estimates_fn).pe.k = "fin"
          /\ FileAt(estimates_fn).pe.n < 0) => b[group][function].Runtime = FileAt(estimates_fn).pe
    /\ (pc = "done" /\ Len(readme.rows) = 1) =>
          \A k \in TableKeys(b) :
              (b[k[1]][k[2]].Runtime.k = "fin" /\ b[k[1]][k[2]].Runtime.n < 0)
                  => Count(readme.rows[1], Minus) = 2

(* C10 as claimed. A point_estimate of zero ends the run with a            *)
(* ZeroDivisionError before README.md is opened, so that no report has a   *)
(* row whose Throughput is infinite or NaN; a negative point_estimate is   *)
(* accepted and gives a row of negative Throughput.                        *)
C10_NoInfNaNRow ==
    /\ C10_ZeroAborts
    /\ C10_NegativeAccepted
    /\ pc = "done" => \A k \in TableKeys(b) : b[k[1]][k[2]].Throughput.k = "fin"

(* C10 as amended. A point_estimate of zero ends the run with a            *)
(* ZeroDivisionError before README.md is opened, so that no row has a      *)
(* Runtime of zero; the Throughput of a row is NaN exactly when its        *)
(* point_estimate is NaN; a negative point_estimate is accepted and gives  *)
(* a row of negative Throughput.                                           *)
C10_ZeroNeverReported ==
    /\ C10_ZeroAborts
    /\ C10_NegativeAccepted
    /\ \A k \in TableKeys(b) :
          /\ ~IsZero(b[k[1]][k[2]].Runtime)
          /\ b[k[1]][k[2]].Throughput.k = "nan" <=> b[k[1]][k[2]].Runtime.k = "nan"
    /\ pc = "done" => Len(readme.rows) = Cardinality(TableKeys(b))

\* The second pair had a point_estimate of zero and ended the run.
C10_Witness ==
    /\ pc = "raised"
    /\ err = "ZeroDivisionError"
    /\ Len(yielded) = 2
    /\ IsZero(FileAt(estimates_fn).pe)
    /\ ~opened

=============================================================================
